---- MODULE Spec2Model ----
(***************************************************************************)
(* Schema miner (schema_create.py) and binding runtime (binding_util.py)   *)
(* of the XML schema/binding generator.                                    *)
(*                                                                         *)
(* Text (element text, attribute values, tags seen by the miner, type      *)
(* names) is a sequence of one-character strings, so that str.strip(),     *)
(* int(), float(), str() and the type-name construction are computed       *)
(* character by character as Python computes them.  None is NoneV, a      *)
(* one-element sequence whose element is no single character, so it equals *)
(* no text.                                                                *)
(***************************************************************************)
EXTENDS Integers, Sequences, FiniteSets, TLC

VARIABLES
    value,      \* infer_data_type: the argument `value` (a text or None)
    inferred,   \* infer_data_type: the returned XSD type, "pending" before the call
    kids,       \* binding: per entity element, its child elements' tags in order
    text,       \* binding: elem.text of every child element <<entity, index>>
    field,      \* binding: self._value of every instance of the declared class
    props,      \* binding: per class, attribute name -> cached_property object
    attrs,      \* binding: per Entity instance, tag -> nested view set by setattr
    cache,      \* binding: per owner, the _cached_* attributes present and their values
    memo,       \* history: <<view, accessor>> -> value its getter computed since the
                \*          last write through that accessor
    fresh,      \* history: <<view, accessor>> -> value written through it and not
                \*          yet read back nor overwritten by a direct assignment
    last,       \* history: the operation performed by the last step and its outcome
    ops,        \* history: number of reads, writes and direct assignments so far
    doc,        \* miner: the root element of the parsed example document
    pos,        \* miner: number of root children analysed (loop of generate_schema)
    dicts,      \* miner: the dictionaries entities, components, datadefs, flat
                \*        (and the history of the elements analysed)
    ctx,        \* miner: template_context, ready once it has been built
    source,     \* miner: the file at xml_file_path (well-formed, malformed, missing)
    result,     \* miner: what generate_schema returned and what __main__ wrote
    froot,      \* document view: the children of the root element of the file
    file,       \* document view: the File object (entities, other root children)
    objs,       \* document view: the views constructed, by the position of
                \*                their element
    got         \* history: the last attribute access and its result

inferVars == <<value, inferred>>
bindVars == <<kids, text, field, props, attrs, cache, memo, fresh, last, ops>>
mineVars == <<doc, pos, dicts, ctx, source, result>>
fileVars == <<froot, file, objs, got>>
vars == <<inferVars, bindVars, mineVars, fileVars>>

(***************************************************************************)
(* Bounds of the model.                                                    *)
(***************************************************************************)
MaxLen == 3     \* longest text handed to infer_data_type
MaxOps == 4     \* reads, writes and direct text assignments per run of the binding
MaxKids == 2    \* most children of an element below the root children of a document
MaxAccess == 2  \* attribute and accessor reads per run of the document view

(***************************************************************************)
(* Python built-ins used by the code.                                      *)
(***************************************************************************)
NoneV == <<"None">>

Digits == {"0", "1", "2", "3", "4", "5", "6", "7", "8", "9"}

Whitespace == {" "}

\* s[i..j] as a sequence (empty when j < i)
Slice(s, i, j) == [k \in 1..(j - i + 1) |-> s[i + k - 1]]

RECURSIVE LStrip(_)
LStrip(s) == IF s # <<>> /\ Head(s) \in Whitespace THEN LStrip(Tail(s)) ELSE s

RECURSIVE RStrip(_)
RStrip(s) == IF s # <<>> /\ s[Len(s)] \in Whitespace
             THEN RStrip(Slice(s, 1, Len(s) - 1)) ELSE s

\* str.strip()
Strip(s) == RStrip(LStrip(s))

\* digitpart ::= digit (["_"] digit)*
DigitPart(s) ==
    /\ s # <<>>
    /\ \A i \in 1..Len(s) : s[i] \in Digits \cup {"_"}
    /\ s[1] \in Digits
    /\ s[Len(s)] \in Digits
    /\ \A i \in 1..(Len(s) - 1) : ~(s[i] = "_" /\ s[i + 1] = "_")

Unsigned(s) == IF s # <<>> /\ Head(s) \in {"+", "-"} THEN Tail(s) ELSE s

\* int(s) does not raise ValueError
IntParses(s) == DigitPart(Unsigned(Strip(s)))

\* [digitpart] "." [digitpart], at least one side present, or a bare digitpart
PointFloat(m) ==
    \/ DigitPart(m)
    \/ \E i \in 1..Len(m) :
          /\ m[i] = "."
          /\ LET l == Slice(m, 1, i - 1)
                 r == Slice(m, i + 1, Len(m))
             IN  /\ l = <<>> \/ DigitPart(l)
                 /\ r = <<>> \/ DigitPart(r)
                 /\ ~(l = <<>> /\ r = <<>>)

FloatNames == {<<"i", "n", "f">>, <<"n", "a", "n">>,
               <<"i", "n", "f", "i", "n", "i", "t", "y">>}

\* float(s) does not raise ValueError
FloatParses(s) ==
    LET u == Unsigned(Strip(s))
    IN  \/ u \in FloatNames
        \/ PointFloat(u)
        \/ \E i \in 1..Len(u) :
              /\ u[i] \in {"e", "E"}
              /\ PointFloat(Slice(u, 1, i - 1))
              /\ DigitPart(Unsigned(Slice(u, i + 1, Len(u))))

(***************************************************************************)
(* Python values held by accessors: int n, float n * 10^e (n not a         *)
(* multiple of 10 unless 0), str s, None, and the module's _sentinel.      *)
(***************************************************************************)
VInt(n) == [k |-> "int", n |-> n, e |-> 0, s |-> <<>>]
VFloat(n, e) == [k |-> "float", n |-> n, e |-> e, s |-> <<>>]
VStr(s) == [k |-> "str", n |-> 0, e |-> 0, s |-> s]
VNone == [k |-> "none", n |-> 0, e |-> 0, s |-> <<>>]
Sentinel == [k |-> "sentinel", n |-> 0, e |-> 0, s |-> <<>>]

DigitVal(c) ==
    CASE c = "0" -> 0 [] c = "1" -> 1 [] c = "2" -> 2 [] c = "3" -> 3
      [] c = "4" -> 4 [] c = "5" -> 5 [] c = "6" -> 6 [] c = "7" -> 7
      [] c = "8" -> 8 [] c = "9" -> 9

DigitChar(d) ==
    CASE d = 0 -> "0" [] d = 1 -> "1" [] d = 2 -> "2" [] d = 3 -> "3"
      [] d = 4 -> "4" [] d = 5 -> "5" [] d = 6 -> "6" [] d = 7 -> "7"
      [] d = 8 -> "8" [] d = 9 -> "9"

\* the digits of a digitpart, underscores dropped
RECURSIVE OnlyDigits(_)
OnlyDigits(s) ==
    IF s = <<>> THEN <<>>
    ELSE IF Head(s) = "_" THEN OnlyDigits(Tail(s))
    ELSE <<Head(s)>> \o OnlyDigits(Tail(s))

RECURSIVE NatVal(_)
NatVal(ds) ==
    IF ds = <<>> THEN 0
    ELSE 10 * NatVal(Slice(ds, 1, Len(ds) - 1)) + DigitVal(ds[Len(ds)])

Signed(s, n) == IF s # <<>> /\ Head(s) = "-" THEN 0 - n ELSE n

\* int(s) for a text int() accepts
IntOf(s) ==
    LET t == Strip(s)
    IN  VInt(Signed(t, NatVal(OnlyDigits(Unsigned(t)))))

RECURSIVE Normalize(_, _)
Normalize(n, e) ==
    IF n = 0 THEN VFloat(0, 0)
    ELSE IF n % 10 = 0 THEN Normalize(n \div 10, e + 1)
    ELSE VFloat(n, e)

\* the value of [digits] "." [digits] (or bare digits) times 10^x
MantissaOf(m, x) ==
    IF \E i \in 1..Len(m) : m[i] = "."
    THEN LET i == CHOOSE j \in 1..Len(m) : m[j] = "."
             l == OnlyDigits(Slice(m, 1, i - 1))
             r == OnlyDigits(Slice(m, i + 1, Len(m)))
         IN  [n |-> NatVal(l \o r), e |-> x - Len(r)]
    ELSE [n |-> NatVal(OnlyDigits(m)), e |-> x]

\* float(s) for a text float() accepts
FloatOf(s) ==
    LET t == Strip(s)
        u == Unsigned(t)
    IN  IF u \in FloatNames
        THEN [k |-> "float", n |-> Signed(t, 1), e |-> 0, s |-> u]
        ELSE IF \E i \in 1..Len(u) : u[i] \in {"e", "E"}
        THEN LET i == CHOOSE j \in 1..Len(u) : u[j] \in {"e", "E"}
                 xs == Slice(u, i + 1, Len(u))
                 x == Signed(xs, NatVal(OnlyDigits(Unsigned(xs))))
                 me == MantissaOf(Slice(u, 1, i - 1), x)
             IN  Normalize(Signed(t, me.n), me.e)
        ELSE LET me == MantissaOf(u, 0)
             IN  Normalize(Signed(t, me.n), me.e)

RECURSIVE NatStr(_)
NatStr(n) ==
    IF n < 10 THEN <<DigitChar(n)>>
    ELSE NatStr(n \div 10) \o <<DigitChar(n % 10)>>

RECURSIVE Zeros(_)
Zeros(n) == IF n <= 0 THEN <<>> ELSE <<"0">> \o Zeros(n - 1)

Abs(n) == IF n < 0 THEN 0 - n ELSE n

Minus(n) == IF n < 0 THEN <<"-">> ELSE <<>>

\* str(v); floats in the positional range of repr (no exponent form)
StrOf(v) ==
    CASE v.k = "int" -> Minus(v.n) \o NatStr(Abs(v.n))
      [] v.k = "str" -> v.s
      [] v.k = "none" -> <<"N", "o", "n", "e">>
      [] v.k = "float" ->
            IF v.s # <<>> THEN Minus(v.n) \o v.s
            ELSE LET ds == NatStr(Abs(v.n))
                 IN  IF v.e >= 0
                     THEN Minus(v.n) \o ds \o Zeros(v.e) \o <<".", "0">>
                     ELSE IF Len(ds) + v.e > 0
                     THEN Minus(v.n) \o Slice(ds, 1, Len(ds) + v.e) \o <<".">>
                             \o Slice(ds, Len(ds) + v.e + 1, Len(ds))
                     ELSE Minus(v.n) \o <<"0", ".">>
                             \o Zeros(0 - (Len(ds) + v.e)) \o ds

(***************************************************************************)
(* schema_create.py: infer_data_type                                       *)
(***************************************************************************)
FloatFirst_infer_data_type(v) ==
    IF v = NoneV THEN "xs:string"
    ELSE LET s == Strip(v)
         IN  IF s = <<>> THEN "xs:string"
             ELSE IF FloatParses(s) THEN "xs:decimal"
             ELSE IF IntParses(s) THEN "xs:integer"
             ELSE "xs:string"

infer_data_type(v) ==
    IF v = NoneV THEN "xs:string"
    ELSE LET s == Strip(v)
         IN  IF s = <<>> THEN "xs:string"
             ELSE IF IntParses(s) THEN "xs:integer"
             ELSE IF FloatParses(s) THEN "xs:decimal"
             ELSE "xs:string"

(***************************************************************************)
(* binding_util.py: cached_property, Entity.                               *)
(*                                                                         *)
(* Views are the Entity objects e1, e2 (binding_util.Entity over an        *)
(* <entitytag> element) and the instances i1, i2 of a class that declares  *)
(* its accessors with @cached_property (the classes of test_bindings.py:   *)
(* `prop` with a setter, `read_only_prop` without one, both reading        *)
(* self._value).                                                           *)
(***************************************************************************)
EntityIds == {"e1", "e2"}
Insts == {"i1", "i2"}
Views == EntityIds \cup Insts

\* generated_bindings.SIMPLE_TYPE_MAP: scalar tag -> Python type
SIMPLE_TYPE_MAP == [prefab |-> "str", blah |-> "float"]

\* generated_bindings.TAG_TO_CLASS_MAP: the tags that have a binding class
TAG_TO_CLASS_MAP == {"btag"}

EmptyFn == [x \in {} |-> Sentinel]

\* f with key k set to v (dict item / attribute assignment)
Put(f, k, v) == [x \in DOMAIN f \cup {k} |-> IF x = k THEN v ELSE f[x]]

\* f without key k (delattr)
Del(f, k) == [x \in DOMAIN f \ {k} |-> f[x]]

\* cached_property.__init__: self.cache_attr_name
cache_attr_name(fname) == "_cached_" \o fname

\* the object whose attributes hold the cached values: the instance itself
OnClass_CacheOwner(v) == IF v \in Insts THEN "CallCounter" ELSE "Entity"

CacheOwner(v) == v

\* Entity.__init__ line 73: every Entity instance gets a class of its own;
\* the instances i1, i2 share their declared class
Shared_ClassOf(v) == IF v \in Insts THEN "CallCounter" ELSE "Entity"

ClassOf(v) == IF v \in Insts THEN "CallCounter" ELSE v

ClassKeys == EntityIds \cup {"CallCounter", "Entity"}
Owners == Views \cup {"CallCounter", "Entity"}

\* the accessors the declared class defines in its body
DeclaredProps ==
    [prop |-> [fname |-> "prop", fset |-> TRUE, kind |-> "field",
               type |-> "", elem |-> <<"", 0>>],
     read_only_prop |-> [fname |-> "read_only_prop", fset |-> FALSE,
                         kind |-> "field", type |-> "", elem |-> <<"", 0>>]]

\* Entity._create_dynamic_properties_on_class: the loop over the children,
\* from child i on; acc = [props, attrs] built so far.  The closures take
\* tag, type and element as default arguments, i.e. by value.
RECURSIVE LateBound_InstallFrom(_, _, _, _)
LateBound_InstallFrom(e, ks, i, acc) ==
    IF i > Len(ks) THEN acc
    ELSE LET tag == ks[i]
             nxt ==
                IF tag \in TAG_TO_CLASS_MAP
                THEN [acc EXCEPT !.attrs = Put(@, tag, <<e, i>>)]
                ELSE IF tag \in DOMAIN SIMPLE_TYPE_MAP
                THEN [acc EXCEPT !.props =
                        Put(@, tag, [fname |-> "getter", fset |-> TRUE,
                                     kind |-> "elem",
                                     type |-> SIMPLE_TYPE_MAP[tag],
                                     elem |-> <<e, Len(ks)>>])]
                ELSE acc
         IN  LateBound_InstallFrom(e, ks, i + 1, nxt)

RECURSIVE InstallFrom(_, _, _, _)
InstallFrom(e, ks, i, acc) ==
    IF i > Len(ks) THEN acc
    ELSE LET tag == ks[i]
             nxt ==
                IF tag \in TAG_TO_CLASS_MAP
                THEN [acc EXCEPT !.attrs = Put(@, tag, <<e, i>>)]
                ELSE IF tag \in DOMAIN SIMPLE_TYPE_MAP
                THEN [acc EXCEPT !.props =
                        Put(@, tag, [fname |-> "getter", fset |-> TRUE,
                                     kind |-> "elem",
                                     type |-> SIMPLE_TYPE_MAP[tag],
                                     elem |-> <<e, i>>])]
                ELSE acc
         IN  InstallFrom(e, ks, i + 1, nxt)

\* _type(elem.text): the value, or ValueError
Convert(type, tx) ==
    CASE type = "str" -> [ok |-> TRUE, val |-> VStr(tx)]
      [] type = "int" -> IF IntParses(tx) THEN [ok |-> TRUE, val |-> IntOf(tx)]
                         ELSE [ok |-> FALSE, val |-> VStr(<<"ValueError">>)]
      [] type = "float" -> IF FloatParses(tx) THEN [ok |-> TRUE, val |-> FloatOf(tx)]
                           ELSE [ok |-> FALSE, val |-> VStr(<<"ValueError">>)]

\* the getter of accessor p called on view v: the closure `getter` of
\* Entity (lines 92-94), or the declared class's `return self._value`
fget(v, p) ==
    IF p.kind = "elem"
    THEN IF text[p.elem] # NoneV THEN Convert(p.type, text[p.elem])
         ELSE [ok |-> TRUE, val |-> VNone]
    ELSE [ok |-> TRUE, val |-> field[v]]

\* what the getter of p reads, for the history variable
ReadsFrom(v, p) == IF p.kind = "elem" THEN p.elem ELSE <<v, 0>>

\* getattr(instance, self.cache_attr_name, _sentinel)
CachedValue(v, slot) ==
    IF slot \in DOMAIN cache[CacheOwner(v)] THEN cache[CacheOwner(v)][slot]
    ELSE Sentinel

PropsOf(v) == props[ClassOf(v)]

\* the views that exist in this run
LiveViews == DOMAIN kids \cup DOMAIN field

NoNode == <<"", 0>>

\* Entity.__init__: the per-instance class is created and the accessors are
\* installed on it
EntityInit(e) ==
    /\ DOMAIN props[ClassOf(e)] = {} /\ DOMAIN attrs[e] = {}
    /\ LET r == InstallFrom(e, kids[e], 1, [props |-> props[ClassOf(e)],
                                           attrs |-> attrs[e]])
       IN  /\ props' = [props EXCEPT ![ClassOf(e)] = r.props]
           /\ attrs' = [attrs EXCEPT ![e] = r.attrs]
    /\ last' = [op |-> "init", view |-> e, acc |-> "", ran |-> FALSE,
                ok |-> TRUE, val |-> VNone, from |-> NoNode]
    /\ UNCHANGED <<kids, text, field, cache, memo, fresh, ops, inferVars, mineVars, fileVars>>

\* cached_property.__get__(instance, owner) for accessor a of view v
CachedGet(v, a) ==
    /\ ops < MaxOps /\ ops' = ops + 1
    /\ a \in DOMAIN PropsOf(v)
    /\ LET p == PropsOf(v)[a]
           slot == cache_attr_name(p.fname)
           cached == CachedValue(v, slot)
           r == fget(v, p)
       IN  IF cached # Sentinel
           THEN /\ last' = [op |-> "read", view |-> v, acc |-> a, ran |-> FALSE,
                            ok |-> TRUE, val |-> cached, from |-> NoNode]
                /\ UNCHANGED <<cache, memo>>
           ELSE /\ last' = [op |-> "read", view |-> v, acc |-> a, ran |-> TRUE,
                            ok |-> r.ok, val |-> r.val, from |-> ReadsFrom(v, p)]
                /\ IF r.ok
                   THEN /\ cache' = [cache EXCEPT ![CacheOwner(v)] = Put(@, slot, r.val)]
                        /\ memo' = Put(memo, <<v, a>>, r.val)
                   ELSE UNCHANGED <<cache, memo>>
    /\ fresh' = Del(fresh, <<v, a>>)
    /\ UNCHANGED <<kids, text, field, props, attrs, inferVars, mineVars, fileVars>>

\* the cached attributes of the owner after __set__ ran the setter:
\* lines 55-56, hasattr / delattr
AfterSet(dict, slot) == IF slot \in DOMAIN dict THEN Del(dict, slot) ELSE dict

\* the setter of an accessor with fset None is reached only after the check
\* of line 50
EagerInvalidate_SetRejected(dict, slot) == Del(dict, slot)

SetRejected(dict, slot) == dict

\* cached_property.__set__(instance, value) for accessor a of view v
CachedSet(v, a, x) ==
    /\ ops < MaxOps /\ ops' = ops + 1
    /\ a \in DOMAIN PropsOf(v)
    /\ LET p == PropsOf(v)[a]
           slot == cache_attr_name(p.fname)
       IN  IF ~p.fset
           THEN /\ last' = [op |-> "write", view |-> v, acc |-> a, ran |-> FALSE,
                            ok |-> FALSE, val |-> VStr(<<"AttributeError">>),
                            from |-> NoNode]
                /\ cache' = [cache EXCEPT ![CacheOwner(v)] = SetRejected(@, slot)]
                /\ UNCHANGED <<text, field, memo, fresh>>
           ELSE /\ last' = [op |-> "write", view |-> v, acc |-> a, ran |-> FALSE,
                            ok |-> TRUE, val |-> x, from |-> NoNode]
                /\ IF p.kind = "elem"
                   THEN /\ text' = [text EXCEPT ![p.elem] = StrOf(x)]
                        /\ UNCHANGED field
                   ELSE /\ field' = [field EXCEPT ![v] = x]
                        /\ UNCHANGED text
                /\ cache' = [cache EXCEPT ![CacheOwner(v)] = AfterSet(@, slot)]
                /\ memo' = Del(memo, <<v, a>>)
                /\ fresh' = Put(fresh, <<v, a>>, x)
    /\ UNCHANGED <<kids, props, attrs, inferVars, mineVars, fileVars>>

\* a caller assigns elem.text directly (test_bindings.py line 195)
OutOfBand(n, tx) ==
    /\ ops < MaxOps /\ ops' = ops + 1
    /\ n \in DOMAIN text
    /\ text[n] # tx
    /\ text' = [text EXCEPT ![n] = tx]
    /\ last' = [op |-> "oob", view |-> n[1], acc |-> "", ran |-> FALSE,
                ok |-> TRUE, val |-> VNone, from |-> n]
    /\ fresh' = [k \in {j \in DOMAIN fresh : PropsOf(j[1])[j[2]].elem # n} |-> fresh[k]]
    /\ UNCHANGED <<kids, field, props, attrs, cache, memo, inferVars, mineVars, fileVars>>

(***************************************************************************)
(* schema_create.py: the schema miner.                                     *)
(*                                                                         *)
(* An element is [tag, type, variant, text, kids]: its tag, its `type` and *)
(* `variant` attributes (NoneV when absent), its text, its children.       *)
(* A dict is the sequence of its items [key, def] in insertion order.      *)
(***************************************************************************)
Element(tag, type, variant, tx, ks) ==
    [tag |-> tag, type |-> type, variant |-> variant, text |-> tx, kids |-> ks]

S_entitytag == <<"e", "n", "t", "i", "t", "y", "t", "a", "g">>
S_component == <<"c", "o", "m", "p", "o", "n", "e", "n", "t">>

Alnum ==
    Digits \cup
    {"a", "b", "c", "d", "e", "f", "g", "h", "i", "j", "k", "l", "m",
     "n", "o", "p", "q", "r", "s", "t", "u", "v", "w", "x", "y", "z",
     "A", "B", "C", "D", "E", "F", "G", "H", "I", "J", "K", "L", "M",
     "N", "O", "P", "Q", "R", "S", "T", "U", "V", "W", "X", "Y", "Z"}

\* the text "None"
S_None == <<"N", "o", "n", "e">>

\* an f-string field: None is formatted as "None"
Format(x) == IF x = NoneV THEN S_None ELSE x

\* lines 40-46, deciding on the `type` attribute where the code decides on
\* the tag "component"
ByAttribute_infer_ecs_type(element) ==
    IF element.tag = S_entitytag THEN "entity"
    ELSE IF element.type # NoneV THEN "component"
    ELSE IF Len(element.kids) # 0 THEN "datadef"
    ELSE "value"

infer_ecs_type(element) ==
    IF element.tag = S_entitytag THEN "entity"
    ELSE IF element.tag = S_component THEN "component"
    ELSE IF Len(element.kids) # 0 THEN "datadef"
    ELSE "value"

get_element_type_name(element) ==
    LET type_attr == element.type
    IN  IF type_attr # NoneV /\ type_attr # <<>>
        THEN LET safe_type_attr ==
                    [i \in 1..Len(type_attr) |->
                        IF type_attr[i] \in Alnum THEN type_attr[i] ELSE "_"]
             IN  element.tag \o <<"_">> \o safe_type_attr \o <<"_", "t", "y", "p", "e">>
        ELSE element.tag \o <<"T", "y", "p", "e">>

\* key in dict
HasKey(dict, k) == \E i \in 1..Len(dict) : dict[i].key = k

\* dict[k]
Item(dict, k) == dict[CHOOSE i \in 1..Len(dict) : dict[i].key = k].def

\* dict[k] = d
SetItem(dict, k, d) ==
    IF HasKey(dict, k)
    THEN [i \in 1..Len(dict) |-> IF dict[i].key = k THEN [key |-> k, def |-> d]
                                  ELSE dict[i]]
    ELSE Append(dict, [key |-> k, def |-> d])

\* list(dict.values())
Values(dict) == [i \in 1..Len(dict) |-> dict[i].def]

\* seq[::-1]
Reversed(seq) == [i \in 1..Len(seq) |-> seq[Len(seq) + 1 - i]]

ChildTags(element) == [i \in 1..Len(element.kids) |-> element.kids[i].tag]

\* number of children of the element with tag t
CountOf(element, t) ==
    Cardinality({i \in 1..Len(element.kids) : element.kids[i].tag = t})

\* Counter(child.tag for child in element).items(): the distinct tags in
\* order of first occurrence, each with its count, turned into children_defs
RECURSIVE ChildrenDefsFrom(_, _)
ChildrenDefsFrom(element, i) ==
    IF i > Len(element.kids) THEN <<>>
    ELSE LET t == element.kids[i].tag
         IN  IF \E j \in 1..(i - 1) : element.kids[j].tag = t
             THEN ChildrenDefsFrom(element, i + 1)
             ELSE <<[name |-> t,
                     maxOccurs |-> IF CountOf(element, t) > 1
                                   THEN "unbounded" ELSE "1"]>>
                  \o ChildrenDefsFrom(element, i + 1)

\* lines 89-96: the variant is defined by the first element seen with it
Overwrite_DefineVariant(entities, variant_type_name, definition) ==
    SetItem(entities, variant_type_name, definition)

DefineVariant(entities, variant_type_name, definition) ==
    IF ~HasKey(entities, variant_type_name)
    THEN SetItem(entities, variant_type_name, definition)
    ELSE entities

VariantTypeName(element) ==
    <<"e", "n", "t", "i", "t", "y", "_">> \o Format(element.variant)
        \o <<"_", "t", "y", "p", "e">>

\* the members / children lists of a component or datadef definition,
\* from child i on (loops of lines 108-119 and 130-141)
RECURSIVE AggregateLists(_, _, _)
AggregateLists(element, i, acc) ==
    IF i > Len(element.kids) THEN acc
    ELSE LET child == element.kids[i]
             child_ecs_type == infer_ecs_type(child)
         IN  AggregateLists(element, i + 1,
                IF child_ecs_type \in {"component", "datadef"}
                THEN [acc EXCEPT !.children =
                        Append(@, [name |-> child.tag,
                                   type |-> get_element_type_name(child)])]
                ELSE [acc EXCEPT !.members =
                        Append(@, [name |-> child.tag,
                                   type |-> infer_data_type(child.text)])])

AggregateDef(element) ==
    LET lists == AggregateLists(element, 1, [members |-> <<>>, children |-> <<>>])
    IN  [name |-> element.tag,
         absolute_name |-> get_element_type_name(element),
         ecs_type |-> element.type,
         members |-> lists.members,
         children |-> lists.children]

\* line 71: the type name is a key of one of the four dictionaries
ComponentsOnly_AlreadyProcessed(d, current_type_name) ==
    HasKey(d.components, current_type_name)

AlreadyProcessed(d, current_type_name) ==
    \/ HasKey(d.entities, current_type_name)
    \/ HasKey(d.components, current_type_name)
    \/ HasKey(d.datadefs, current_type_name)
    \/ HasKey(d.flat, current_type_name)

\* the four dictionaries
Catalog(d) == <<d.entities, d.components, d.datadefs, d.flat>>

\* analyze_element(element, entities, components, datadefs, flat); parent is
\* element.getparent(); d holds the four dictionaries and, as history:
\*   at       the position of the element in the document (child indices
\*            from the root),
\*   visited  the elements analysed (not skipped), in order,
\*   revisits the calls made on a non-entity element whose type name was
\*            already a key, and whether the call left the dictionaries
\*            as they were
RECURSIVE analyze_element(_, _, _)
RECURSIVE AnalyzeChildren(_, _, _)
RECURSIVE Call(_, _, _, _)
analyze_element(element, parent, d) ==
    LET current_type_name == get_element_type_name(element)
        ecs_type == infer_ecs_type(element)
    IN  IF ecs_type # "entity" /\ AlreadyProcessed(d, current_type_name)
        THEN d
        ELSE LET seen == [d EXCEPT !.visited =
                            Append(@, [kind |-> ecs_type, element |-> element,
                                       at |-> d.at])]
                 d1 ==
                    CASE ecs_type = "entity" ->
                            [seen EXCEPT !.entities =
                                DefineVariant(@, VariantTypeName(element),
                                    [name |-> element.tag,
                                     variant_name |-> element.variant,
                                     variant_type_name |-> VariantTypeName(element),
                                     children |-> ChildrenDefsFrom(element, 1)])]
                      [] ecs_type = "component" ->
                            [seen EXCEPT !.components =
                                SetItem(@, current_type_name, AggregateDef(element))]
                      [] ecs_type = "datadef" ->
                            [seen EXCEPT !.datadefs =
                                SetItem(@, current_type_name, AggregateDef(element))]
                      [] ecs_type = "value" ->
                            IF infer_ecs_type(parent) \notin {"component", "datadef"}
                            THEN [seen EXCEPT !.flat =
                                    SetItem(@, current_type_name,
                                        [name |-> element.tag,
                                         absolute_name |-> current_type_name,
                                         type |-> infer_data_type(element.text)])]
                            ELSE seen
             IN  AnalyzeChildren(element, 1, d1)

\* lines 158-159: for child in element: analyze_element(child, ...)
AnalyzeChildren(element, i, d) ==
    IF i > Len(element.kids) THEN d
    ELSE AnalyzeChildren(element, i + 1,
            Call(element.kids[i], element, Append(d.at, i), d))

\* one call analyze_element(child, ...) made by a loop (lines 159, 190) on the
\* child at position at, with the history of the call
Call(child, parent, at, d) ==
    LET r == [analyze_element(child, parent, [d EXCEPT !.at = at])
                EXCEPT !.at = d.at]
    IN  IF /\ infer_ecs_type(child) # "entity"
           /\ \E dict \in {d.entities, d.components, d.datadefs, d.flat} :
                 HasKey(dict, get_element_type_name(child))
        THEN [r EXCEPT !.revisits =
                Append(@, [at |-> at, unchanged |-> Catalog(d) = Catalog(r)])]
        ELSE r

EmptyDicts ==
    [entities |-> <<>>, components |-> <<>>, datadefs |-> <<>>, flat |-> <<>>,
     at |-> <<>>, visited |-> <<>>, revisits |-> <<>>]

\* lines 184-187: every call of generate_schema starts from new, empty
\* dictionaries
Carried_FreshDicts(d) == d

FreshDicts(d) == EmptyDicts

\* ctx is the template context of the current call of generate_schema; as
\* history, pass counts the calls made on the document and first keeps the
\* lists the first call emitted
NoContext ==
    [ready |-> FALSE, pass |-> 1, first |-> <<>>,
     entities |-> <<>>, components |-> <<>>, datadefs |-> <<>>,
     root_children_defs |-> <<>>, flat |-> <<>>]

\* lines 194-195: list({d['name']: d for d in all_defs}.values()): one entry
\* per name, at the place of the name's first definition, holding its last
RECURSIVE UniqueFrom(_, _)
UniqueFrom(all_defs, i) ==
    IF i > Len(all_defs) THEN <<>>
    ELSE IF \E j \in 1..(i - 1) : all_defs[j].name = all_defs[i].name
         THEN UniqueFrom(all_defs, i + 1)
         ELSE LET last_i == CHOOSE j \in i..Len(all_defs) :
                               /\ all_defs[j].name = all_defs[i].name
                               /\ \A k \in (j + 1)..Len(all_defs) :
                                     all_defs[k].name # all_defs[i].name
              IN  <<all_defs[last_i]>> \o UniqueFrom(all_defs, i + 1)

\* the lists of a template context
Emitted(c) ==
    <<c.entities, c.components, c.datadefs, c.root_children_defs, c.flat>>

NoDoc == Element(<<>>, NoneV, NoneV, NoneV, <<>>)

NoResult ==
    [parsed |-> FALSE, returned |-> "pending", done |-> FALSE, written |-> FALSE,
     generated |-> FALSE, variants |-> <<>>]

\* generate_schema, lines 171-181: the file is parsed.  XMLSyntaxError and
\* FileNotFoundError are caught and None is returned; for a missing file
\* lxml raises either FileNotFoundError or its base class OSError, and
\* OSError is not caught
ParseInput ==
    /\ ~result.parsed /\ result.returned = "pending"
    /\ \/ /\ source.kind = "wellformed"
          /\ doc' = source.root
          /\ result' = [result EXCEPT !.parsed = TRUE]
       \/ /\ source.kind = "malformed"
          /\ result' = [result EXCEPT !.returned = "None"]
          /\ UNCHANGED doc
       \/ /\ source.kind = "missing"
          /\ \E outcome \in {"None", "OSError"} :
                result' = [result EXCEPT !.returned = outcome]
          /\ UNCHANGED doc
    /\ UNCHANGED <<pos, dicts, ctx, source, inferVars, bindVars, fileVars>>

\* __main__, line 231: if xsd_content
Always_ShouldWrite(xsd_content) == TRUE

ShouldWrite(xsd_content) == xsd_content = "xsd"

\* __main__, lines 228-234: the returned text is written to the output file;
\* an exception raised by generate_schema ends the program before
WriteOutput ==
    /\ result.returned # "pending" /\ ~result.done
    /\ result' = [result EXCEPT
                    !.done = TRUE,
                    !.written = /\ result.returned # "OSError"
                                /\ ShouldWrite(result.returned)]
    /\ UNCHANGED <<doc, pos, dicts, ctx, source, inferVars, bindVars, fileVars>>

\* codegen_create.py line 102, comp_type.split("_")[1]: the text between the
\* first and the second underscore (or the end); IndexError without one
variant_name(comp_type) ==
    LET us == {i \in 1..Len(comp_type) : comp_type[i] = "_"}
    IN  IF us = {} THEN [ok |-> FALSE, val |-> <<"IndexError">>]
        ELSE LET i1 == CHOOSE i \in us : \A j \in us : i <= j
                 rest == {i \in us : i > i1}
                 i2 == IF rest = {} THEN Len(comp_type) + 1
                       ELSE CHOOSE i \in rest : \A j \in rest : i <= j
             IN  [ok |-> TRUE, val |-> SubSeq(comp_type, i1 + 1, i2 - 1)]

\* codegen_create.py __main__, lines 95-102: the binding generator reads the
\* written schema and extracts a variant name from the type name of every
\* alternative of `component`, that is, from the type name the miner built
\* for each component definition
Codegen ==
    /\ result.written /\ ctx.ready /\ ~result.generated
    /\ result' = [result EXCEPT
                    !.generated = TRUE,
                    !.variants = [k \in 1..Len(ctx.components) |->
                                    variant_name(ctx.components[k].absolute_name)]]
    /\ UNCHANGED <<doc, pos, dicts, ctx, source, inferVars, bindVars, fileVars>>

\* generate_schema, lines 189-190: one iteration of the loop over the root's
\* children
AnalyzeRootChild ==
    /\ result.parsed /\ ~ctx.ready
    /\ pos < Len(doc.kids)
    /\ dicts' = Call(doc.kids[pos + 1], doc, <<pos + 1>>, dicts)
    /\ pos' = pos + 1
    /\ UNCHANGED <<doc, ctx, source, result, inferVars, bindVars, fileVars>>

\* generate_schema, lines 194-215: the lists handed to the template, which
\* is rendered and returned
BuildContext ==
    /\ result.parsed /\ ~ctx.ready
    /\ pos = Len(doc.kids)
    /\ ctx' = [ctx EXCEPT
                 !.ready = TRUE,
                 !.entities = Reversed(Values(dicts.entities)),
                 !.components = Reversed(Values(dicts.components)),
                 !.datadefs = Reversed(Values(dicts.datadefs)),
                 !.root_children_defs =
                    Reversed(UniqueFrom(Values(dicts.components)
                                           \o Values(dicts.datadefs), 1)),
                 !.flat = Reversed(Values(dicts.flat))]
    /\ result' = [result EXCEPT !.returned = "xsd"]
    /\ UNCHANGED <<doc, pos, dicts, source, inferVars, bindVars, fileVars>>

\* generate_schema is called on the same document a second time, after the
\* first run of the two programs has ended
MineAgain ==
    /\ ctx.ready /\ ctx.pass = 1
    /\ result.generated
    /\ ctx' = [NoContext EXCEPT !.pass = 2, !.first = Emitted(ctx)]
    /\ dicts' = FreshDicts(dicts)
    /\ pos' = 0
    /\ UNCHANGED <<doc, source, result, inferVars, bindVars, fileVars>>

(***************************************************************************)
(* bindings.py, binding_util.py: the top-level document view File and the  *)
(* views it constructs.                                                    *)
(*                                                                         *)
(* A node is [tag, type, text, kids] with the `type` attribute "" when     *)
(* absent.  A view is identified by the position of its element: <<r>> for *)
(* the r-th child of the root, <<r, i>> for its i-th child.                *)
(***************************************************************************)
Node(tag, type, tx, ks) == [tag |-> tag, type |-> type, text |-> tx, kids |-> ks]

\* entity_tag_name (binding_util.py line 114, bindings.py line 13)
ENTITY_TAG == "entitytag"

\* generated_bindings.DATA_TAG_TO_CLASS_MAP: the tags with a binding class
DATA_TAG_TO_CLASS_MAP == {"ztag", "btag"}

\* the `type` values the binding classes of a tag are generated for
RegisteredTypes == [btag |-> {"b"}]

\* the scalar accessors the binding class of a tag declares, with their types
CLASS_MEMBERS == [btag |-> [value1 |-> "float"], ztag |-> [vv33 |-> "int"]]

\* a view of class cls over the element at position at, as its constructor
\* leaves it: no accessor read, nothing cached
NewView(cls, at) ==
    [class |-> cls, at |-> at, attrs |-> EmptyFn, cache |-> EmptyFn,
     handed |-> EmptyFn, reads |-> 0]

\* the tags of the children of a node, in order
TagsOf(node) == [i \in 1..Len(node.kids) |-> node.kids[i].tag]

\* line 86, gb.TAG_TO_CLASS_MAP[tag_name](child): the nested views the loop
\* of Entity._create_dynamic_properties_on_class constructs for the entity at
\* position <<r>>, one per child whose tag has a class
Lazy_NestedViewsOf(r, node) == EmptyFn

NestedViewsOf(r, node) ==
    [p \in {<<r, i>> : i \in {j \in 1..Len(node.kids) :
                                node.kids[j].tag \in TAG_TO_CLASS_MAP}}
        |-> NewView(node.kids[p[2]].tag, p)]

\* Entity(elem) for the r-th child of the root: the Entity view itself
EntityView(r, node) ==
    [NewView("Entity", <<r>>) EXCEPT
        !.attrs = InstallFrom(r, TagsOf(node), 1,
                              [props |-> EmptyFn, attrs |-> EmptyFn]).attrs]

\* f extended by g (disjoint domains)
Merge(f, g) ==
    [x \in DOMAIN f \cup DOMAIN g |-> IF x \in DOMAIN f THEN f[x] ELSE g[x]]

\* the views constructed for the entities among root children 1..n
RECURSIVE EntityViewsUpTo(_, _)
EntityViewsUpTo(root, n) ==
    IF n = 0 THEN EmptyFn
    ELSE IF root[n].tag = ENTITY_TAG
         THEN Merge(Merge(EntityViewsUpTo(root, n - 1),
                          [p \in {<<n>>} |-> EntityView(n, root[n])]),
                    NestedViewsOf(n, root[n]))
         ELSE EntityViewsUpTo(root, n - 1)

\* the indices in 1..n of the root children that are entities (wanted TRUE)
\* or are not (wanted FALSE), in document order
RECURSIVE Select(_, _, _)
Select(root, n, wanted) ==
    IF n = 0 THEN <<>>
    ELSE IF (root[n].tag = ENTITY_TAG) = wanted
         THEN Append(Select(root, n - 1, wanted), n)
         ELSE Select(root, n - 1, wanted)

\* self._element.findall(entity_tag_name): the entity children, in order
FindAllEntities(root) == Select(root, Len(root), TRUE)

\* [... for elem in self._element.iterchildren() if elem.tag != entity_tag_name]
OtherChildren(root) == Select(root, Len(root), FALSE)

\* binding_util.File.__init__: entities are wrapped, the other root children
\* are kept as elements
BindingUtilFile ==
    /\ file.state = "parsed"
    /\ file' = [state |-> "built", class |-> "binding_util.File", error |-> "",
                entities |-> [k \in 1..Len(FindAllEntities(froot)) |->
                                 <<FindAllEntities(froot)[k]>>],
                others |-> [k \in 1..Len(OtherChildren(froot)) |->
                               [child |-> OtherChildren(froot)[k], view |-> <<>>]]]
    /\ objs' = EntityViewsUpTo(froot, Len(froot))
    /\ got' = [op |-> "init", n |-> 0, view |-> <<>>, name |-> "",
               obj |-> <<>>, ran |-> FALSE, val |-> VNone]
    /\ UNCHANGED <<froot, inferVars, bindVars, mineVars>>

\* bindings.File.__init__: entities are wrapped (line 14), then every other
\* root child is wrapped by DATA_TAG_TO_CLASS_MAP[elem.tag] (line 15), which
\* raises KeyError for a tag that is no key
BindingsFile ==
    /\ file.state = "parsed"
    /\ IF \E k \in 1..Len(OtherChildren(froot)) :
             froot[OtherChildren(froot)[k]].tag \notin DATA_TAG_TO_CLASS_MAP
       THEN /\ file' = [state |-> "failed", class |-> "bindings.File",
                        error |-> "KeyError", entities |-> <<>>, others |-> <<>>]
            /\ objs' = EmptyFn
       ELSE /\ file' = [state |-> "built", class |-> "bindings.File", error |-> "",
                        entities |-> [k \in 1..Len(FindAllEntities(froot)) |->
                                         <<FindAllEntities(froot)[k]>>],
                        others |-> [k \in 1..Len(OtherChildren(froot)) |->
                                       [child |-> OtherChildren(froot)[k],
                                        view |-> <<OtherChildren(froot)[k]>>]]]
            /\ objs' = Merge(EntityViewsUpTo(froot, Len(froot)),
                             [p \in {<<OtherChildren(froot)[k]>> :
                                       k \in 1..Len(OtherChildren(froot))}
                                 |-> NewView(froot[p[1]].tag, p)])
    /\ got' = [op |-> "init", n |-> 0, view |-> <<>>, name |-> "",
               obj |-> <<>>, ran |-> FALSE, val |-> VNone]
    /\ UNCHANGED <<froot, inferVars, bindVars, mineVars>>

\* the element at position p below the root
NodeAt(root, p) == IF Len(p) = 1 THEN root[p[1]] ELSE root[p[1]].kids[p[2]]

\* an attribute set by setattr (line 86) is read: view.tag
GetAttr(p, tag) ==
    /\ file.state = "built" /\ got.n < MaxAccess
    /\ p \in DOMAIN objs /\ tag \in DOMAIN objs[p].attrs
    /\ got' = [op |-> "attr", n |-> got.n + 1, view |-> p, name |-> tag,
               obj |-> objs[p].attrs[tag], ran |-> FALSE, val |-> VNone]
    /\ objs' = [objs EXCEPT ![p].handed =
                    IF tag \in DOMAIN @ THEN @ ELSE Put(@, tag, objs[p].attrs[tag])]
    /\ UNCHANGED <<froot, file, inferVars, bindVars, mineVars>>

\* the getter of scalar accessor a of a binding class: the text of the child
\* of that name, converted
MemberGet(node, a, type) ==
    IF \E i \in 1..Len(node.kids) : node.kids[i].tag = a
    THEN LET child == node.kids[CHOOSE i \in 1..Len(node.kids) :
                                   /\ node.kids[i].tag = a
                                   /\ \A j \in 1..(i - 1) : node.kids[j].tag # a]
         IN  IF child.text # NoneV THEN Convert(type, child.text).val ELSE VNone
    ELSE VNone

\* cached_property.__get__ (lines 37-47) for scalar accessor a of the view at p
ReadMember(p, a) ==
    /\ file.state = "built" /\ got.n < MaxAccess
    /\ p \in DOMAIN objs
    /\ objs[p].class \in DOMAIN CLASS_MEMBERS
    /\ a \in DOMAIN CLASS_MEMBERS[objs[p].class]
    /\ LET slot == cache_attr_name(a)
           cached == IF slot \in DOMAIN objs[p].cache THEN objs[p].cache[slot]
                     ELSE Sentinel
           v == MemberGet(NodeAt(froot, p), a, CLASS_MEMBERS[objs[p].class][a])
       IN  IF cached # Sentinel
           THEN /\ got' = [op |-> "read", n |-> got.n + 1, view |-> p, name |-> a,
                           obj |-> <<>>, ran |-> FALSE, val |-> cached]
                /\ objs' = [objs EXCEPT ![p].reads = @ + 1]
           ELSE /\ got' = [op |-> "read", n |-> got.n + 1, view |-> p, name |-> a,
                           obj |-> <<>>, ran |-> TRUE, val |-> v]
                /\ objs' = [objs EXCEPT ![p].reads = @ + 1,
                                        ![p].cache = Put(@, slot, v)]
    /\ UNCHANGED <<froot, file, inferVars, bindVars, mineVars>>

(***************************************************************************)
(* Specification SpecBind: reads, writes and direct text assignments on    *)
(* the views, in any order.                                                *)
(***************************************************************************)
TextA == <<"a">>
Text32 == <<"3", ".", "2">>
Text99 == <<"9", ".", "9">>

\* the documents bound: per entity element, its children as <<tag, text>>
E1Children == {<< <<"prefab", TextA>>, <<"blah", Text32>> >>,
               << <<"blah", NoneV>>, <<"prefab", TextA>> >>}
E2Children == {<< <<"blah", Text32>> >>,
               << <<"prefab", TextA>>, <<"prefab", NoneV>> >>,
               << <<"btag", NoneV>>, <<"junk", TextA>>, <<"blah", Text32>> >>}

\* values a caller writes through an accessor of primitive type t
WriteVals(t) ==
    CASE t = "str" -> {VStr(<<"z">>)}
      [] t = "float" -> {VFloat(7, 0), VFloat(75, 0 - 1)}
      [] t = "int" -> {VInt(7)}
      [] OTHER -> {VNone, VInt(2)}

\* texts a caller assigns to elem.text directly
OutOfBandTexts == {Text99}

IdleInfer == value = NoneV /\ inferred = "idle"

IdleMine ==
    /\ doc = NoDoc
    /\ pos = 0 /\ dicts = EmptyDicts /\ ctx = NoContext
    /\ source = [kind |-> "none", root |-> NoDoc] /\ result = NoResult

IdleFile ==
    /\ froot = <<>> /\ file = [state |-> "idle"] /\ objs = EmptyFn
    /\ got = [op |-> "idle"]

IdleBind ==
    /\ kids = EmptyFn /\ text = EmptyFn /\ field = EmptyFn /\ props = EmptyFn
    /\ attrs = EmptyFn /\ cache = EmptyFn /\ memo = EmptyFn /\ fresh = EmptyFn
    /\ last = [op |-> "idle"] /\ ops = 0

\* a run binds either the two entity elements of a document or creates the
\* two instances of the declared class
InitBind ==
    /\ IdleInfer /\ IdleMine /\ IdleFile
    /\ \/ /\ \E c1 \in E1Children, c2 \in E2Children :
               LET ch == [e \in EntityIds |-> IF e = "e1" THEN c1 ELSE c2]
               IN  /\ kids = [e \in EntityIds |->
                                [i \in 1..Len(ch[e]) |-> ch[e][i][1]]]
                   /\ text = [n \in UNION {{<<e, i>> : i \in 1..Len(ch[e])} :
                                            e \in EntityIds}
                                |-> ch[n[1]][n[2]][2]]
          /\ field = EmptyFn
       \/ /\ kids = EmptyFn /\ text = EmptyFn
          /\ field \in [Insts -> {VNone, VInt(1)}]
    /\ props = [c \in ClassKeys |-> IF c = "CallCounter" THEN DeclaredProps ELSE EmptyFn]
    /\ attrs = [e \in EntityIds |-> EmptyFn]
    /\ cache = [o \in Owners |-> EmptyFn]
    /\ memo = EmptyFn
    /\ fresh = EmptyFn
    /\ last = [op |-> "start", view |-> "", acc |-> "", ran |-> FALSE,
               ok |-> TRUE, val |-> VNone, from |-> NoNode]
    /\ ops = 0

Construct == \E e \in DOMAIN kids : EntityInit(e)

Read == \E v \in LiveViews : \E a \in DOMAIN PropsOf(v) : CachedGet(v, a)

Write ==
    \E v \in LiveViews : \E a \in DOMAIN PropsOf(v) :
        \E x \in WriteVals(PropsOf(v)[a].type) : CachedSet(v, a, x)

Assign == \E n \in DOMAIN text : \E tx \in OutOfBandTexts : OutOfBand(n, tx)

NextBind == Construct \/ Read \/ Write \/ Assign

SpecBind == InitBind /\ [][NextBind]_vars

\* the step performs operation op through accessor a of view v
Step(op, v, a) ==
    /\ ops' = ops + 1
    /\ last'.op = op /\ last'.view = v /\ last'.acc = a

\* the child element of entity e that the accessor for tag t is created for:
\* the last child with that tag (a later child's accessor replaces an earlier one)
CreatedFor(e, t) ==
    <<e, CHOOSE i \in 1..Len(kids[e]) :
            /\ kids[e][i] = t
            /\ \A j \in (i + 1)..Len(kids[e]) : kids[e][j] # t>>

\* C1: once a read through accessor a of view v has computed a value (None
\* included), every later read of a through v with no write through a in
\* between returns that value without running the getter again, whatever
\* happened to the underlying text meanwhile.
C1_CachedReadStable ==
    [][\A k \in DOMAIN memo :
          Step("read", k[1], k[2])
             => (~last'.ran /\ last'.ok /\ last'.val = memo[k])]_vars

\* C2: after a write of x through accessor a of view v, the next read of a
\* through v runs the getter, returns x, and leaves x cached.
C2_WriteThenRead ==
    [][\A k \in DOMAIN fresh :
          Step("read", k[1], k[2])
             => /\ last'.ran /\ last'.ok /\ last'.val = fresh[k]
                /\ (CachedValue(k[1], cache_attr_name(PropsOf(k[1])[k[2]].fname)))'
                      = fresh[k]]_vars

\* C3: a write of x through a scalar accessor of an Entity sets the text of
\* the element the accessor was created for to str(x) and changes the text
\* of no other element.
C3_WriteReachesOwnNode ==
    [][\A e \in DOMAIN kids : \A t \in DOMAIN PropsOf(e) :
          (Step("write", e, t) /\ last'.ok)
             => text' = [text EXCEPT ![CreatedFor(e, t)] = StrOf(last'.val)]]_vars

\* a write through the accessor of the first of two children has changed
\* that child's text, and not the last child's
C3_Witness ==
    /\ last.op = "write" /\ last.ok /\ last.view = "e1"
    /\ CreatedFor("e1", last.acc) = <<"e1", 1>>
    /\ text[<<"e1", 1>>] = StrOf(last.val)
    /\ text[<<"e1", 2>>] # StrOf(last.val)

\* C4: a write through an accessor that declares no setter fails with
\* AttributeError and changes nothing: the cached value, if there is one,
\* stays in place, and the underlying data is as before.
C4_ReadOnlyRejected ==
    [][\A v \in LiveViews : \A a \in DOMAIN PropsOf(v) :
          (Step("write", v, a) /\ ~PropsOf(v)[a].fset)
             => /\ ~last'.ok /\ last'.val = VStr(<<"AttributeError">>)
                /\ UNCHANGED <<text, field, cache, props, attrs>>]_vars

\* a write was rejected while the accessor held a cached value
C4_Witness ==
    /\ last.op = "write" /\ ~last.ok /\ last.acc = "read_only_prop"
    /\ CachedValue(last.view, "_cached_read_only_prop") # Sentinel
    /\ CachedValue(last.view, "_cached_read_only_prop") = memo[<<last.view, last.acc>>]

\* the cached attributes of view w
CacheOf(w) == cache[CacheOwner(w)]

\* C5: a read or write through one view leaves the cached values of every
\* other view as they are, and a getter run through a view reads that
\* view's own data.
C5_InstanceIsolation ==
    [][\A v \in LiveViews : \A a \in DOMAIN PropsOf(v) :
          (Step("read", v, a) \/ Step("write", v, a))
             => /\ \A w \in LiveViews \ {v} : CacheOf(w)' = CacheOf(w)
                /\ last'.ran => last'.from[1] = v]_vars

\* two views of the same type hold different cached values
C5_Witness ==
    \E v \in LiveViews, w \in LiveViews :
       /\ v # w
       /\ {v, w} \in {EntityIds, Insts}
       /\ \E sl \in DOMAIN CacheOf(v) \cap DOMAIN CacheOf(w) :
             CacheOf(v)[sl] # CacheOf(w)[sl]
       /\ last.op = "read" /\ last.ran

\* C6: on an Entity view every accessor stays bound to its own element and
\* its own cached value: a getter that runs reads the element the accessor
\* was created for, a read served from the cache returns what that
\* accessor's own getter computed, and a value the accessor has cached is
\* not invalidated by reads or writes through another accessor.
C6_AccessorsStayBound ==
    [][\A e \in DOMAIN kids : \A t \in DOMAIN PropsOf(e) :
          Step("read", e, t)
             => /\ last'.ran => last'.from = CreatedFor(e, t)
                /\ ~last'.ran => (<<e, t>> \in DOMAIN memo
                                    /\ last'.val = memo[<<e, t>>])
                /\ <<e, t>> \in DOMAIN memo => ~last'.ran]_vars

\* the accessors entity view e exposes: the properties of its class and the
\* attributes set on the instance
Exposed(e) == DOMAIN PropsOf(e) \cup DOMAIN attrs[e]

\* the tags of e's children that the schema knows
KnownTags(e) ==
    {kids[e][i] : i \in 1..Len(kids[e])}
       \cap (TAG_TO_CLASS_MAP \cup DOMAIN SIMPLE_TYPE_MAP)

\* C16: constructing the Entity view of e succeeds and leaves e exposing an
\* accessor for exactly the tags of its own children that the schema knows
\* (children with other tags are skipped), and changes the accessors of no
\* other entity view; no view ever exposes an accessor for a tag its own
\* node has no child for.
C16_PerInstanceAccessors ==
    [][/\ \A e \in DOMAIN kids :
             (last'.op = "init" /\ last'.view = e)
                => /\ last'.ok
                   /\ Exposed(e)' = KnownTags(e)
                   /\ \A f \in DOMAIN kids \ {e} : Exposed(f)' = Exposed(f)
       /\ \A e \in DOMAIN kids : Exposed(e)' \subseteq KnownTags(e)]_vars

\* both entity views are constructed; the second has a child the schema
\* does not know and lacks a child the first has
C16_Witness ==
    /\ DOMAIN kids = EntityIds
    /\ Exposed("e1") = {"prefab", "blah"}
    /\ Exposed("e2") = {"btag", "blah"}
    /\ \E i \in 1..Len(kids["e2"]) : kids["e2"][i] = "junk"

(***************************************************************************)
(* Specification SpecMine: generate_schema on every bounded document.      *)
(***************************************************************************)
Leaf(tag, tx) == Element(tag, NoneV, NoneV, tx, <<>>)

\* elements found below the root's children: a scalar, a childless
\* component, a data definition holding a scalar, a childless entity
\* without a variant attribute
Inner ==
    {Leaf(<<"v">>, <<"3">>),
     Element(S_component, <<"c">>, NoneV, NoneV, <<>>),
     Element(<<"x">>, NoneV, NoneV, NoneV, <<Leaf(<<"v">>, <<"3">>)>>),
     Element(S_entitytag, NoneV, NoneV, NoneV, <<>>)}

\* a `component` element without a `type` attribute, and an element of
\* another tag that carries one and has a child
Odd ==
    {Element(S_component, NoneV, NoneV, NoneV, <<>>),
     Element(<<"x">>, <<"t">>, NoneV, NoneV, <<Leaf(<<"v">>, <<"3">>)>>)}

RECURSIVE SeqsUpTo(_, _)
SeqsUpTo(S, n) ==
    IF n = 0 THEN {<<>>}
    ELSE LET shorter == SeqsUpTo(S, n - 1)
         IN  shorter \cup {Append(q, e) : q \in shorter, e \in S}

\* a child of the root: a data definition, components of types "p.q" and
\* "p_q" and entities with variant "m" and with variant "None", over every
\* sequence of at most n inner elements, the inner elements themselves, and
\* the odd ones
OuterUpTo(n) ==
    Inner \cup Odd \cup
    UNION {{Element(<<"a">>, NoneV, NoneV, NoneV, ks),
            Element(S_component, <<"p", ".", "q">>, NoneV, NoneV, ks),
            Element(S_component, <<"p", "_", "q">>, NoneV, NoneV, ks),
            Element(S_entitytag, NoneV, <<"m">>, NoneV, ks),
            Element(S_entitytag, NoneV, S_None, NoneV, ks)} :
           ks \in SeqsUpTo(Inner, n)}

Outer == OuterUpTo(MaxKids)

\* documents: a root with at most two children, the first of two with at
\* most one child of its own
RootChildren ==
    {<<>>} \cup {<<b>> : b \in Outer}
       \cup {<<a, b>> : a \in OuterUpTo(1), b \in Outer}

Docs == {Element(<<"r", "o", "o", "t">>, NoneV, NoneV, NoneV, ks) : ks \in RootChildren}

InitMine ==
    /\ IdleInfer /\ IdleBind /\ IdleFile
    /\ source \in [kind : {"wellformed"}, root : Docs]
                  \cup [kind : {"malformed", "missing"}, root : {NoDoc}]
    /\ result = NoResult
    /\ doc = NoDoc
    /\ pos = 0
    /\ dicts = EmptyDicts
    /\ ctx = NoContext

NextMine ==
    \/ ParseInput \/ AnalyzeRootChild \/ BuildContext \/ MineAgain
    \/ WriteOutput \/ Codegen

SpecMine == InitMine /\ [][NextMine]_vars

\* index of the definition named k in an emitted list (0 when absent)
IndexOf(list, k) ==
    IF \E i \in 1..Len(list) : list[i].absolute_name = k
    THEN CHOOSE i \in 1..Len(list) : list[i].absolute_name = k
    ELSE 0

\* C8: in each emitted list of aggregate definitions, every type a
\* definition references by child stands earlier in the list than the
\* definition itself.
C8_DependencyOrder ==
    ctx.ready =>
        \A list \in {ctx.components, ctx.datadefs} :
            \A i \in 1..Len(list) : \A c \in 1..Len(list[i].children) :
                IndexOf(list, list[i].children[c].type) # 0
                    => IndexOf(list, list[i].children[c].type) < i

\* the child relations a definition records
Relations(kind, def) ==
    IF kind = "entity" THEN def.children ELSE def.members \o def.children

\* the multiplicity a relation carries ("absent" when it carries none)
Multiplicity(rel) ==
    IF "maxOccurs" \in DOMAIN rel THEN rel.maxOccurs ELSE "absent"

\* the definition that analysing element e of kind k produced
DefinitionOf(k, e) ==
    CASE k = "entity" -> Item(dicts.entities, VariantTypeName(e))
      [] k = "component" -> Item(dicts.components, get_element_type_name(e))
      [] k = "datadef" -> Item(dicts.datadefs, get_element_type_name(e))

\* C9: for every entity or aggregate element analysed, each distinct child
\* tag yields exactly one child relation, carrying "unbounded" when the tag
\* occurs more than once among the element's children and "1" when once.
C9_Multiplicity ==
    \A n \in 1..Len(dicts.visited) :
        LET k == dicts.visited[n].kind
            e == dicts.visited[n].element
        IN  k # "value" =>
              LET rels == Relations(k, DefinitionOf(k, e))
              IN  \A i \in 1..Len(e.kids) :
                    LET t == e.kids[i].tag
                    IN  /\ Cardinality({r \in 1..Len(rels) : rels[r].name = t}) = 1
                        /\ \A r \in 1..Len(rels) :
                              rels[r].name = t =>
                                 Multiplicity(rels[r]) =
                                    IF CountOf(e, t) > 1 THEN "unbounded" ELSE "1"

\* the entity elements analysed so far that carry variant value v
EntitiesOf(v) ==
    {n \in 1..Len(dicts.visited) :
        /\ dicts.visited[n].kind = "entity"
        /\ dicts.visited[n].element.variant = v}

C11_VariantsSeparate ==
    \A n \in 1..Len(dicts.visited), m \in 1..Len(dicts.visited) :
        LET a == dicts.visited[n].element
            b == dicts.visited[m].element
        IN  (/\ dicts.visited[n].kind = "entity" /\ dicts.visited[m].kind = "entity"
             /\ a.variant # NoneV /\ b.variant # NoneV /\ a.variant # b.variant)
            => /\ VariantTypeName(a) # VariantTypeName(b)
               /\ \A e \in {a, b} :
                     /\ HasKey(dicts.entities, VariantTypeName(e))
                     /\ LET def == Item(dicts.entities, VariantTypeName(e))
                        IN  /\ def.variant_name = e.variant
                            /\ \E k \in EntitiesOf(e.variant) :
                                  def.children =
                                     ChildrenDefsFrom(dicts.visited[k].element, 1)

\* p is an initial part of q
IsPrefix(p, q) == Len(p) <= Len(q) /\ SubSeq(q, 1, Len(p)) = p

\* the element at position path below element
RECURSIVE ElementAt(_, _)
ElementAt(element, path) ==
    IF path = <<>> THEN element
    ELSE ElementAt(element.kids[Head(path)], Tail(path))

\* C12: a call on a non-entity element whose type name is already a key of
\* the catalog leaves the four dictionaries as they were and analyses
\* neither that element nor any element below it; entity elements are
\* exempt: every entity child of the root and of an analysed element is
\* analysed.
C12_FirstOccurrenceWins ==
    /\ \A r \in 1..Len(dicts.revisits) :
          /\ dicts.revisits[r].unchanged
          /\ \A n \in 1..Len(dicts.visited) :
                ~IsPrefix(dicts.revisits[r].at, dicts.visited[n].at)
    /\ \A i \in 1..pos :
          infer_ecs_type(doc.kids[i]) = "entity"
             => \E m \in 1..Len(dicts.visited) : dicts.visited[m].at = <<i>>
    /\ \A n \in 1..Len(dicts.visited) :
          \A i \in 1..Len(dicts.visited[n].element.kids) :
             infer_ecs_type(dicts.visited[n].element.kids[i]) = "entity"
                => \E m \in 1..Len(dicts.visited) :
                      dicts.visited[m].at = Append(dicts.visited[n].at, i)

\* a data definition was met a second time with other children, among them
\* a component whose type is not in the catalog
C12_Witness ==
    /\ ctx.ready
    /\ \E r \in 1..Len(dicts.revisits) :
          LET e == ElementAt(doc, dicts.revisits[r].at)
          IN  /\ infer_ecs_type(e) = "datadef"
              /\ Item(dicts.datadefs, get_element_type_name(e)) # AggregateDef(e)
              /\ \E i \in 1..Len(e.kids) :
                    /\ infer_ecs_type(e.kids[i]) = "component"
                    /\ ~HasKey(dicts.components, get_element_type_name(e.kids[i]))

\* the positions analyze_element was called on so far
Called ==
    {dicts.visited[n].at : n \in 1..Len(dicts.visited)}
       \cup {dicts.revisits[r].at : r \in 1..Len(dicts.revisits)}

\* C13: two elements analyze_element was called on have the same type name
\* exactly when they have the same tag and the same `type` attribute (or
\* both have none); and two such components that share
\* their tag and carry different `type` values are recorded as two
\* definitions, each with its own `type` value.
C13_KeyInjective ==
    /\ \A p \in Called, q \in Called :
          LET a == ElementAt(doc, p)
              b == ElementAt(doc, q)
          IN  get_element_type_name(a) = get_element_type_name(b)
                 <=> (a.tag = b.tag /\ a.type = b.type)
    /\ \A p \in Called, q \in Called :
          LET a == ElementAt(doc, p)
              b == ElementAt(doc, q)
          IN  (/\ infer_ecs_type(a) = "component" /\ infer_ecs_type(b) = "component"
               /\ a.type # NoneV /\ b.type # NoneV /\ a.type # b.type)
              => \A e \in {a, b} :
                    /\ HasKey(dicts.components, get_element_type_name(e))
                    /\ Item(dicts.components, get_element_type_name(e)).ecs_type = e.type
                    /\ get_element_type_name(a) # get_element_type_name(b)

C19_NoCatalogOnBadInput ==
    source.kind \in {"malformed", "missing"} =>
        /\ Catalog(dicts) = Catalog(EmptyDicts)
        /\ ~ctx.ready /\ Emitted(ctx) = Emitted(NoContext)
        /\ ~result.written
        /\ result.returned \in {"pending", "None", "OSError"}
        /\ (result.done => result.returned \in {"None", "OSError"})

\* a malformed file was read, None was returned, and __main__ has ended
\* without writing
C19_Witness ==
    /\ source.kind = "malformed"
    /\ result.returned = "None" /\ result.done /\ ~result.written

\* C21 as stated: every analysed element has exactly one class: entity for
\* the tag entitytag; otherwise component when it carries a `type`
\* attribute; otherwise datadef when it has children; otherwise value.
C21_ClassifiedByAttribute ==
    \A n \in 1..Len(dicts.visited) :
        LET e == dicts.visited[n].element
        IN  dicts.visited[n].kind =
               (IF e.tag = S_entitytag THEN "entity"
                ELSE IF e.type # NoneV THEN "component"
                ELSE IF e.kids # <<>> THEN "datadef"
                ELSE "value")

\* C21 (amended): every analysed element has exactly one class: entity for
\* the tag entitytag; otherwise component for the tag component, with or
\* without a `type` attribute; otherwise datadef when it has children, with
\* or without a `type` attribute; otherwise value.  An entity, a component
\* and a datadef are then defined in the dictionary of their class.
C21_ClassifiedByTag ==
    \A n \in 1..Len(dicts.visited) :
        LET e == dicts.visited[n].element
            kind == dicts.visited[n].kind
        IN  /\ kind \in {"entity", "component", "datadef", "value"}
            /\ kind = "entity" <=> e.tag = S_entitytag
            /\ kind = "component" <=> e.tag = S_component
            /\ kind = "datadef" <=>
                  (e.tag \notin {S_entitytag, S_component} /\ e.kids # <<>>)
            /\ kind = "value" <=>
                  (e.tag \notin {S_entitytag, S_component} /\ e.kids = <<>>)
            /\ kind = "entity" => HasKey(dicts.entities, VariantTypeName(e))
            /\ kind = "component" =>
                  /\ HasKey(dicts.components, get_element_type_name(e))
                  /\ ~HasKey(dicts.datadefs, get_element_type_name(e))
            /\ kind = "datadef" =>
                  /\ HasKey(dicts.datadefs, get_element_type_name(e))
                  /\ ~HasKey(dicts.components, get_element_type_name(e))

\* the document was mined, and among the analysed elements are a component
\* without a `type` attribute, an element of another tag with a `type`
\* attribute and a child, an entity and a value
C21_Witness ==
    /\ ctx.ready
    /\ \E n \in 1..Len(dicts.visited) :
          /\ dicts.visited[n].element.tag = S_component
          /\ dicts.visited[n].element.type = NoneV
          /\ dicts.visited[n].kind = "component"
    /\ \E n \in 1..Len(dicts.visited) :
          /\ dicts.visited[n].element.tag \notin {S_entitytag, S_component}
          /\ dicts.visited[n].element.type # NoneV
          /\ dicts.visited[n].kind = "datadef"
    /\ \E n \in 1..Len(dicts.visited) : dicts.visited[n].kind = "value"

\* element.getparent() for the element at position p of the document
ParentAt(p) == ElementAt(doc, SubSeq(p, 1, Len(p) - 1))

\* the item of dict d defines a member of the element's tag and inferred type
HasMember(def, element) ==
    \E k \in 1..Len(def.members) :
        def.members[k] = [name |-> element.tag,
                          type |-> infer_data_type(element.text)]

\* the childless element has a definition of its own in flat, with its
\* inferred type
InFlat(element) ==
    /\ HasKey(dicts.flat, get_element_type_name(element))
    /\ Item(dicts.flat, get_element_type_name(element)).type
          = infer_data_type(element.text)

\* C22: every childless element of another tag than entitytag and component
\* that analyze_element was called on is in the catalog: as a member of
\* the definition of its parent when the parent is an analysed component
\* or datadef, and with a definition of its own in flat when its parent is
\* an entity or the root.
C22_ScalarsRepresented ==
    \A p \in Called :
        LET e == ElementAt(doc, p)
            parent == ParentAt(p)
        IN  infer_ecs_type(e) = "value" =>
               /\ (/\ Len(p) > 1
                   /\ infer_ecs_type(parent) = "component"
                   /\ \E n \in 1..Len(dicts.visited) :
                         dicts.visited[n].at = SubSeq(p, 1, Len(p) - 1))
                  => HasMember(Item(dicts.components, get_element_type_name(parent)), e)
               /\ (/\ Len(p) > 1
                   /\ infer_ecs_type(parent) = "datadef"
                   /\ \E n \in 1..Len(dicts.visited) :
                         dicts.visited[n].at = SubSeq(p, 1, Len(p) - 1))
                  => HasMember(Item(dicts.datadefs, get_element_type_name(parent)), e)
               /\ (Len(p) > 1 /\ infer_ecs_type(parent) = "entity") => InFlat(e)
               /\ Len(p) = 1 => InFlat(e)

\* C23: once the generator has run, the variant name it extracted for every
\* component definition that carries a `type` value is that value, and
\* definitions with different `type` values got different variant names.
C23_DiscriminantRoundTrip ==
    result.generated =>
        /\ \A k \in 1..Len(ctx.components) :
              ctx.components[k].ecs_type # NoneV
                 => /\ result.variants[k].ok
                    /\ result.variants[k].val = ctx.components[k].ecs_type
        /\ \A k \in 1..Len(ctx.components), l \in 1..Len(ctx.components) :
              (/\ ctx.components[k].ecs_type # NoneV
               /\ ctx.components[l].ecs_type # NoneV
               /\ ctx.components[k].ecs_type # ctx.components[l].ecs_type)
              => result.variants[k].val # result.variants[l].val

(***************************************************************************)
(* Specification SpecFile: a file is loaded by either File class, then     *)
(* attributes and scalar accessors of the views are read.                  *)
(***************************************************************************)
Text33 == <<"3", "3">>

\* the children of an entity: data elements of a registered and of an
\* unregistered `type`, and an element of a tag the schema does not know
FileKids ==
    {Node("btag", "b", NoneV, <<Node("value1", "", Text32, <<>>)>>),
     Node("btag", "q", NoneV, <<Node("value1", "", Text99, <<>>)>>),
     Node("junk", "", TextA, <<>>)}

\* the children of the root: entities, a data element, an unknown element
FileRootNodes ==
    {Node(ENTITY_TAG, "", NoneV, ks) : ks \in SeqsUpTo(FileKids, MaxKids)}
       \cup {Node("ztag", "", NoneV, <<Node("vv33", "", Text33, <<>>)>>),
             Node("junk", "", TextA, <<>>)}

\* documents: a root with at most two children
FileDocs == SeqsUpTo(FileRootNodes, 2)

InitFile ==
    /\ IdleInfer /\ IdleBind /\ IdleMine
    /\ froot \in FileDocs
    /\ file = [state |-> "parsed", class |-> "", error |-> "",
               entities |-> <<>>, others |-> <<>>]
    /\ objs = EmptyFn
    /\ got = [op |-> "start", n |-> 0, view |-> <<>>, name |-> "",
              obj |-> <<>>, ran |-> FALSE, val |-> VNone]

Access == \E p \in DOMAIN objs : \E tag \in DOMAIN objs[p].attrs : GetAttr(p, tag)

ReadScalar ==
    \E p \in DOMAIN objs :
        \E a \in UNION {DOMAIN CLASS_MEMBERS[c] : c \in DOMAIN CLASS_MEMBERS} :
            ReadMember(p, a)

NextFile == BindingUtilFile \/ BindingsFile \/ Access \/ ReadScalar

SpecFile == InitFile /\ [][NextFile]_vars

\* the positions of the elements the File constructor has to bind: the
\* entities, their children whose tag has a class, and, for bindings.File,
\* the other root children
ToBind ==
    LET ents == {i \in 1..Len(froot) : froot[i].tag = ENTITY_TAG}
        nested == UNION {{<<r, i>> : i \in {j \in 1..Len(froot[r].kids) :
                                              froot[r].kids[j].tag \in TAG_TO_CLASS_MAP}} :
                         r \in ents}
        others == {i \in 1..Len(froot) : /\ file.class = "bindings.File"
                                         /\ froot[i].tag # ENTITY_TAG}
    IN  ({<<r>> : r \in ents} \cup nested) \cup {<<r>> : r \in others}

\* the element at p is of a tag with registered `type` values and carries
\* another value
UnknownVariant(p) ==
    /\ NodeAt(froot, p).tag \in DOMAIN RegisteredTypes
    /\ NodeAt(froot, p).type \notin RegisteredTypes[NodeAt(froot, p).tag]

\* C15: no view is bound over an element whose `type` value has no
\* registered definition, and a load that meets such an element fails with
\* UnknownVariantError.
C15_UnknownVariantFails ==
    file.state \in {"built", "failed"} =>
        /\ \A p \in DOMAIN objs : ~UnknownVariant(p)
        /\ (\E p \in ToBind : UnknownVariant(p))
              => file.error = "UnknownVariantError"

\* C17: once File was called, the view exists and every entity child of the
\* root is exactly once among its entities and never among its other
\* children, every other child is exactly once among the other children
\* and never among the entities, and both sequences are in document order.
C17_RootPartition ==
    file.state \in {"built", "failed"} =>
        /\ file.state = "built"
        /\ \A i \in 1..Len(froot) :
              LET asEntity == {k \in 1..Len(file.entities) : file.entities[k] = <<i>>}
                  asOther == {k \in 1..Len(file.others) : file.others[k].child = i}
              IN  IF froot[i].tag = ENTITY_TAG
                  THEN Cardinality(asEntity) = 1 /\ asOther = {}
                  ELSE Cardinality(asOther) = 1 /\ asEntity = {}
        /\ \A k \in 1..Len(file.entities), l \in 1..Len(file.entities) :
              k < l => file.entities[k][1] < file.entities[l][1]
        /\ \A k \in 1..Len(file.others), l \in 1..Len(file.others) :
              k < l => file.others[k].child < file.others[l].child

\* C18: when bindings.File is called on a document whose root has a
\* non-entity child of a tag without a class, the view is built all the
\* same: the entities are bound and listed, and the other root children
\* whose tag has a class are bound and listed.
C18_UnknownRootChildLocal ==
    (/\ file.state \in {"built", "failed"}
     /\ file.class = "bindings.File"
     /\ \E i \in 1..Len(froot) :
           froot[i].tag # ENTITY_TAG /\ froot[i].tag \notin DATA_TAG_TO_CLASS_MAP)
    => /\ file.state = "built"
       /\ \A i \in 1..Len(froot) :
             froot[i].tag = ENTITY_TAG
                => (<<i>> \in DOMAIN objs
                      /\ \E k \in 1..Len(file.entities) : file.entities[k] = <<i>>)
       /\ \A i \in 1..Len(froot) :
             froot[i].tag \in DATA_TAG_TO_CLASS_MAP
                => (<<i>> \in DOMAIN objs
                      /\ \E k \in 1..Len(file.others) : file.others[k].view = <<i>>)

\* the children of the entity at root position r whose tag has a class
KnownKids(r) ==
    {i \in 1..Len(froot[r].kids) : froot[r].kids[i].tag \in TAG_TO_CLASS_MAP}

\* the last child of the entity at root position r that carries the tag
LastWithTag(r, tag) ==
    CHOOSE i \in 1..Len(froot[r].kids) :
        /\ froot[r].kids[i].tag = tag
        /\ \A j \in (i + 1)..Len(froot[r].kids) : froot[r].kids[j].tag # tag

\* every read of an attribute returned the object the attribute was set to,
\* and a view none of whose accessors was read has nothing cached
SameObjectUncached ==
    /\ got.op = "attr" => got.obj = objs[got.view].attrs[got.name]
    /\ \A p \in DOMAIN objs :
          /\ \A tag \in DOMAIN objs[p].handed :
                objs[p].handed[tag] = objs[p].attrs[tag]
          /\ objs[p].reads = 0 => objs[p].cache = EmptyFn

\* C20 as stated: in every state from the construction of the File on, each
\* child of an entity whose tag has a class has a nested view and the
\* entity's attribute of that tag is that view; every read of the attribute
\* returns it, and a nested view never read has nothing cached.
C20_EveryChildExposed ==
    file.state = "built" =>
        /\ \A r \in 1..Len(froot) :
              froot[r].tag = ENTITY_TAG =>
                 \A i \in KnownKids(r) :
                    /\ <<r, i>> \in DOMAIN objs
                    /\ froot[r].kids[i].tag \in DOMAIN objs[<<r>>].attrs
                    /\ objs[<<r>>].attrs[froot[r].kids[i].tag] = <<r, i>>
        /\ SameObjectUncached

\* C20 (amended): in every state from the construction of the File on
\* (before any access included), each child of an entity whose tag has a
\* class has a nested view; the entity's attribute of a tag is the nested
\* view of the LAST child with that tag; every read of the attribute returns
\* that object, and a nested view never read has nothing cached.
C20_EagerNestedViews ==
    file.state = "built" =>
        /\ \A r \in 1..Len(froot) :
              froot[r].tag = ENTITY_TAG =>
                 /\ \A i \in KnownKids(r) :
                       /\ <<r, i>> \in DOMAIN objs
                       /\ objs[<<r, i>>].class = froot[r].kids[i].tag
                       /\ froot[r].kids[i].tag \in DOMAIN objs[<<r>>].attrs
                       /\ objs[<<r>>].attrs[froot[r].kids[i].tag]
                             = <<r, LastWithTag(r, froot[r].kids[i].tag)>>
                 /\ DOMAIN objs[<<r>>].attrs
                       = {froot[r].kids[i].tag : i \in KnownKids(r)}
        /\ SameObjectUncached

\* an entity has two children of one tag with a class: the attribute was
\* read and gave the view of the second, an accessor of that view was then
\* read and cached, and the view of the first child is still unread
C20_Witness ==
    /\ file.state = "built"
    /\ \E r \in 1..Len(froot) :
          /\ froot[r].tag = ENTITY_TAG
          /\ KnownKids(r) = {1, 2}
          /\ froot[r].kids[1].tag = froot[r].kids[2].tag
          /\ froot[r].kids[1].tag \in DOMAIN objs[<<r>>].handed
          /\ objs[<<r>>].handed[froot[r].kids[1].tag] = <<r, 2>>
          /\ got.op = "read" /\ got.view = <<r, 2>> /\ got.ran
          /\ objs[<<r, 2>>].cache # EmptyFn
          /\ objs[<<r, 1>>].reads = 0 /\ objs[<<r, 1>>].cache = EmptyFn

(***************************************************************************)
(* Specification SpecInfer: infer_data_type applied to every bounded text. *)
(***************************************************************************)
InferChars == {"3", ".", "-", "e", "_", " ", "a", "n"}

RECURSIVE TextsUpTo(_, _)
TextsUpTo(chars, n) ==
    IF n = 0 THEN {<<>>}
    ELSE LET shorter == TextsUpTo(chars, n - 1)
         IN  shorter \cup {Append(s, c) : s \in shorter, c \in chars}

InferInputs == TextsUpTo(InferChars, MaxLen) \cup {NoneV}

InitInfer ==
    /\ IdleBind /\ IdleMine /\ IdleFile
    /\ value \in InferInputs
    /\ inferred = "pending"

Infer ==
    /\ inferred = "pending"
    /\ inferred' = infer_data_type(value)
    /\ UNCHANGED <<value, bindVars, mineVars, fileVars>>

NextInfer == Infer

SpecInfer == InitInfer /\ [][NextInfer]_vars

\* C7: whole-number parse is tried first, then decimal parse, then string:
\* text that int() accepts infers xs:integer, text that only float() accepts
\* infers xs:decimal, every other text (empty, whitespace-only and None
\* included) infers xs:string.
C7_InferenceOrder ==
    inferred # "pending" =>
        /\ (value # NoneV /\ IntParses(value)) => inferred = "xs:integer"
        /\ (value # NoneV /\ ~IntParses(value) /\ FloatParses(value))
              => inferred = "xs:decimal"
        /\ (value # NoneV /\ ~IntParses(value) /\ ~FloatParses(value))
              => inferred = "xs:string"
        /\ (value = NoneV \/ (value # NoneV /\ Strip(value) = <<>>))
              => inferred = "xs:string"

\* a text both int() and float() accept has been inferred
C7_Witness ==
    /\ value = <<"3">>
    /\ inferred = "xs:integer"
    /\ FloatParses(value)
====
